---- MODULE Spec2Model ----
(***************************************************************************)
(* FacebookGraphAPI (facebook_instagram_analytics/api/facebook_api.py):    *)
(* the retrying request make_request and the pagination loop               *)
(* get_paginated_results.                                                  *)
(*                                                                         *)
(* Strings are sequences of one-character tokens.  "B" stands for the      *)
(* text of self.base_url, "T" for the text access_token, "L" for the text  *)
(* limit; "/", "?", "&" and "=" are themselves.                            *)
(***************************************************************************)
EXTENDS Integers, Sequences, FiniteSets, TLC

\* ------------------------------------------------------------------------
\* Bounds of the exploration
MaxRetriesBound == 2   \* largest max_retries of a direct make_request call
MaxPageRetries == 1    \* MAX_RETRIES configured for page fetches
MaxPages == 3          \* page fetches recorded in pagelog
MaxPageLen == 2        \* records in one page
MaxResults == 3        \* records accumulated in all_results
MaxSpan == 34          \* days from start_date to end_date
MaxCalls == 3          \* calls of add_account_data
MaxAdds == 3           \* calls of add_account
MaxData == 2           \* pages in the 'me/accounts' response

\* ------------------------------------------------------------------------
\* Strings

BaseUrl == <<"B">>
AccessTokenKey == <<"T">>
LimitKey == <<"L">>
Token == <<"s", "e", "c">>

\* str.split(c) for a one-character separator c
RECURSIVE Split(_, _)
Split(str, c) ==
    LET Parts(s) ==
          IF \A i \in 1..Len(s) : s[i] # c
          THEN <<s>>
          ELSE LET i == CHOOSE j \in 1..Len(s) :
                            s[j] = c /\ \A m \in 1..(j - 1) : s[m] # c
               IN  <<SubSeq(s, 1, i - 1)>> \o Split(SubSeq(s, i + 1, Len(s)), c)
    IN  CHOOSE parts \in {Parts(s) : s \in {str}} : TRUE

\* str.replace(pat, '') for a non-empty pat
RECURSIVE RemoveAll(_, _)
RemoveAll(str, pat) ==
    LET Rest(s) ==
          IF Len(s) < Len(pat) THEN s
          ELSE IF SubSeq(s, 1, Len(pat)) = pat
               THEN RemoveAll(SubSeq(s, Len(pat) + 1, Len(s)), pat)
               ELSE <<s[1]>> \o RemoveAll(Tail(s), pat)
    IN  CHOOSE rest \in {Rest(s) : s \in {str}} : TRUE

\* ------------------------------------------------------------------------
\* Dictionaries: functions from keys to values

EmptyDict == [x \in {} |-> <<>>]

DictSet(d, k, v) == [x \in (DOMAIN d) \cup {k} |-> IF x = k THEN v ELSE d[x]]

\* ------------------------------------------------------------------------
\* JSON values, as decoded by response.json().  JSON null decodes to None.

JsonValue(kind, msg, dkind, items, pkind, nkind, next) ==
    [kind |-> kind, msg |-> msg, dkind |-> dkind, items |-> items,
     pkind |-> pkind, nkind |-> nkind, next |-> next]

None == JsonValue("null", "", "absent", <<>>, "absent", "absent", <<>>)
JsonNumber == JsonValue("number", "", "absent", <<>>, "absent", "absent", <<>>)
JsonList == JsonValue("list", "", "absent", <<>>, "absent", "absent", <<>>)
ErrorObject(msg) == JsonValue("object", msg, "absent", <<>>, "absent", "absent", <<>>)

\* bool(value): None, {} are false; a non-zero number, a non-empty list and a
\* non-empty object are true
Truthy(j) ==
    \/ j.kind \in {"number", "list"}
    \/ j.kind = "object" /\ (j.msg # "" \/ j.dkind # "absent" \/ j.pkind # "absent")

\* 'rate limit' in str(error_info).lower()
MentionsRateLimit(j) == j.msg = "rate limit"

\* ------------------------------------------------------------------------
\* Response bodies and outcomes of one network attempt

Body(text, value) == [text |-> text, value |-> value]
EmptyBody == Body("empty", None)
GarbageBody == Body("garbage", None)
JsonBody(j) == Body("json", j)

\* response.json() succeeds only on JSON text
ValidJson(body) == body.text = "json"

Outcome(kind, status, body) == [kind |-> kind, status |-> status, body |-> body]
Timeout == Outcome("timeout", 0, EmptyBody)
ConnectionError == Outcome("connerr", 0, EmptyBody)
OtherException == Outcome("exception", 0, EmptyBody)
Response(status, body) == Outcome("response", status, body)

IsResponse(o) == o.kind = "response"
Success(o) == IsResponse(o) /\ o.status = 200 /\ ValidJson(o.body)

\* ------------------------------------------------------------------------
\* Inputs

Records == {"r1", "r2"}
DataLists == UNION {[1..n -> Records] : n \in 0..MaxPageLen}

Methods == {"GET", "post", "PUT"}
RetryChoices == -1..MaxRetriesBound
DelayChoices == {1, 5}

\* config.py values used by the page fetches of get_paginated_results
RETRY_DELAY == 5
MAX_RETRIES == MaxPageRetries
LimitChoices == {<<"1", "0", "0">>}
Endpoints == {<<"m", "e">>}

\* the dictionary a caller may pass: an ordinary key, a limit and a forged
\* access_token
CallerDict ==
    [x \in {<<"k">>, LimitKey, AccessTokenKey} |->
        IF x = <<"k">> THEN <<"v">>
        ELSE IF x = LimitKey THEN <<"9">> ELSE <<"x">>]

\* values of paging.next: a URL with a query string; a URL without one; a
\* URL to another endpoint with a forged access_token, a key given twice and
\* a second '?'; a cursor padded with '='; a component without '='
PlainUrl == <<"B", "/", "e", "?", "k", "=", "v">>
BareUrl == <<"B", "/", "e">>
NextUrls ==
    { PlainUrl,
      BareUrl,
      <<"B", "/", "f", "?", "T", "=", "x", "&", "k", "=", "v", "&", "k", "=", "w", "?", "j", "=", "z">>,
      <<"B", "/", "e", "?", "k", "=", "v", "=", "=">>,
      <<"B", "/", "e", "?", "k">> }

Paging(pkind, nkind, next) == [pkind |-> pkind, nkind |-> nkind, next |-> next]

\* paging of the usual pages: absent, without next, or with one of the two
\* usual URLs
PlainPagingValues ==
    { Paging("absent", "absent", <<>>), Paging("map", "absent", <<>>),
      Paging("map", "str", PlainUrl), Paging("map", "str", BareUrl) }

\* every paging: also a next that is null or empty, the other URLs, and a
\* paging that is null, a number, or a list without 'next'
PagingValues ==
    PlainPagingValues
    \cup { Paging("map", "null", <<>>), Paging("map", "str", <<>>) }
    \cup { Paging("map", "str", u) : u \in NextUrls }
    \cup { Paging(k, "absent", <<>>) : k \in {"null", "scalar", "list"} }

\* JSON objects a server may return with status 200: pages with any list of
\* records, without paging or with the usual next URL; pages of at most one
\* record "r1" with every paging; and pages whose results_key is missing or
\* is a number
Pages ==
    { JsonValue("object", "", "list", l, p.pkind, p.nkind, p.next) :
        l \in DataLists,
        p \in {Paging("absent", "absent", <<>>), Paging("map", "str", PlainUrl)} }
    \cup { JsonValue("object", "", "list", l, p.pkind, p.nkind, p.next) :
             l \in {<<>>, <<"r1">>}, p \in PagingValues }
    \cup { JsonValue("object", "", k, <<>>, p.pkind, p.nkind, p.next) :
             k \in {"absent", "scalar"},
             p \in {Paging("absent", "absent", <<>>), Paging("map", "str", PlainUrl)} }

SamplePage == JsonValue("object", "", "list", <<"r1">>, "absent", "absent", <<>>)

\* what one network attempt of a direct make_request call may meet
RequestBodies ==
    { EmptyBody, GarbageBody }
    \cup { JsonBody(j) : j \in { None, JsonNumber, JsonList, SamplePage,
                                 ErrorObject("rate limit"),
                                 ErrorObject("bad request") } }

RequestOutcomes ==
    { Timeout, ConnectionError, OtherException }
    \cup { Response(st, b) : st \in {200, 429, 400}, b \in RequestBodies }

\* what one network attempt of a page fetch may meet: the accumulated
\* records stay within MaxResults, and once MaxPages fetches are recorded
\* the server sends pages without records only
PageOutcomes(acc, log) ==
    { Timeout, Response(200, GarbageBody),
      Response(400, JsonBody(ErrorObject("bad request"))) }
    \cup { Response(200, JsonBody(j)) : j \in { None, JsonNumber, JsonList } }
    \cup { Response(200, JsonBody(j)) :
             j \in { q \in Pages :
                       (Len(acc) + Len(q.items) <= MaxResults)
                       /\ (Len(log) = MaxPages => q.items = <<>>) } }

\* a server that answers every request, after at most a timeout, with a
\* well-formed page of at most one record, with or without a next cursor
CursorUrls == { PlainUrl, BareUrl }

CursorOutcomes(acc, log) ==
    { Timeout }
    \cup { o \in PageOutcomes(acc, log) :
             /\ Success(o)
             /\ o.body.value.kind = "object"
             /\ o.body.value.dkind = "list"
             /\ Len(o.body.value.items) <= 1
             /\ \/ o.body.value.pkind = "absent"
                \/ o.body.value.pkind = "map" /\ o.body.value.next \in CursorUrls }

\* ------------------------------------------------------------------------
\* State

VARIABLES
    op,             \* the operation the caller invoked
    method,         \* make_request: method
    max_retries,    \* make_request: max_retries (MAX_RETRIES for page fetches)
    retry_delay,    \* make_request: retry_delay (RETRY_DELAY for page fetches)
    limit,          \* get_paginated_results: limit
    endpoint,       \* endpoint of the current request
    params,         \* the dictionary the current request uses
    aliased,        \* params is the caller's own dictionary object
    caller_given,   \* the caller passed a dictionary (not None)
    caller_params,  \* content of the caller's dictionary
    mr_pc,          \* make_request: "idle", "loop", "returned", "raised"
    retries,        \* make_request: retries
    trace,          \* network attempts and sleeps of the current make_request call
    result,         \* value returned by make_request
    pg_pc,          \* get_paginated_results: "idle", "fetching", "returned",
                    \* "raised"
    all_results,    \* get_paginated_results: all_results
    next_page_url,  \* get_paginated_results: next_page_url
    pagelog,        \* what each completed page fetch delivered
    truncated,      \* pagelog stopped recording at MaxPages entries
    client,         \* FacebookGraphAPI(...): "none", "constructed", "raised"
    token_arg,      \* __init__: the access_token argument
    token_env,      \* config: FACEBOOK_ACCESS_TOKEN
    access_token,   \* self.access_token
    dr_pc,          \* get_monthly_date_ranges: "idle", "loop", "returned"
    start_date,     \* get_monthly_date_ranges: start_date
    end_date,       \* get_monthly_date_ranges: end_date
    current_start,  \* get_monthly_date_ranges: current_start
    monthly_ranges, \* get_monthly_date_ranges: monthly_ranges
    cm_facebook,    \* ConsolidatedMetrics.facebook
    cm_instagram,   \* ConsolidatedMetrics.instagram
    cm_accounts,    \* ConsolidatedMetrics.accounts
    cm_calls,       \* the arguments of the add_account_data calls made
    facebook_pages,     \* AccountCollection.facebook_pages
    instagram_accounts, \* AccountCollection.instagram_accounts
    ad_accounts,        \* AccountCollection.ad_accounts
    ac_pc,          \* AccountCollection: "idle", "added", "raised", "found"
    ac_calls,       \* the add_account calls made and how each ended
    account_id,     \* find_by_id: account_id
    found,          \* value returned by find_by_id
    sv_pc,          \* get_connected_accounts: "idle", "loop", "returned",
                    \* "raised"
    sv_requests,    \* the make_request calls made and what each returned
    sv_pages        \* the entries of user_response['data'] still to process

vars == <<op, method, max_retries, retry_delay, limit, endpoint, params,
          aliased, caller_given, caller_params, mr_pc, retries, trace, result,
          pg_pc, all_results, next_page_url, pagelog, truncated,
          client, token_arg, token_env, access_token,
          dr_pc, start_date, end_date, current_start, monthly_ranges,
          cm_facebook, cm_instagram, cm_accounts, cm_calls,
          facebook_pages, instagram_accounts, ad_accounts, ac_pc, ac_calls,
          account_id, found, sv_pc, sv_requests, sv_pages>>

clientVars == <<client, token_arg, token_env, access_token>>
dateVars == <<dr_pc, start_date, end_date, current_start, monthly_ranges>>

\* the state of the other modules, which the API client does not touch
metricsVars == <<cm_facebook, cm_instagram, cm_accounts, cm_calls>>
collectionVars == <<facebook_pages, instagram_accounts, ad_accounts, ac_pc,
                    ac_calls, account_id, found>>
serviceVars == <<sv_pc, sv_requests, sv_pages>>
otherVars == <<dateVars, metricsVars, collectionVars, serviceVars>>
configVars == <<op, method, max_retries, retry_delay, limit, caller_given,
                clientVars, otherVars>>
mrVars == <<mr_pc, retries, trace, result>>
pgVars == <<pg_pc, all_results, next_page_url, pagelog, truncated>>
dictVars == <<endpoint, params, aliased, caller_params>>

NoUrl == [kind |-> "null", s |-> <<>>]
Url(s) == [kind |-> "str", s |-> s]

AttemptEvent(o) == [ev |-> "attempt", out |-> o, wait |-> 0]
SleepEvent(t) == [ev |-> "sleep", out |-> Timeout, wait |-> t]

\* ------------------------------------------------------------------------
\* __init__

\* an optional string: None or a string
NoString == [kind |-> "null", s |-> <<>>]
String(s) == [kind |-> "str", s |-> s]

\* bool(value) of an optional string
StringTruthy(v) == v.kind = "str" /\ v.s # <<>>

\* access_token or FACEBOOK_ACCESS_TOKEN
TokenOr(a, e) == IF StringTruthy(a) THEN a ELSE e

\* if not self.access_token: raise ValueError
RaisesOnNoneOnly(t) == t.kind = "null"
RaisesValueError(t) == ~StringTruthy(t)

\* what the caller and the environment may give as a token
TokenChoices == { NoString, String(<<>>), String(Token), String(<<"a", "r", "g">>) }

\* FacebookGraphAPI(token_arg) with FACEBOOK_ACCESS_TOKEN = token_env
Construct ==
    /\ client = "none"
    /\ LET t == TokenOr(token_arg, token_env) IN
         IF RaisesValueError(t)
         THEN client' = "raised" /\ access_token' = access_token
         ELSE client' = "constructed" /\ access_token' = t.s
    /\ UNCHANGED <<op, method, max_retries, retry_delay, limit, caller_given,
                   token_arg, token_env, mrVars, pgVars, dictVars, otherVars>>

\* a client constructed with the token Token
Constructed ==
    /\ client = "constructed"
    /\ token_arg = String(Token)
    /\ token_env = NoString
    /\ access_token = Token

\* ------------------------------------------------------------------------
\* make_request

\* method.upper()
Upper(m) == IF m = "post" THEN "POST" ELSE m

\* method.upper() == 'GET' ... elif method.upper() == 'POST' ... else
SupportedMethodAlways(m) == TRUE
SupportedMethod(m) == Upper(m) \in {"GET", "POST"}

\* while retries <= max_retries
LoopGuardOneMore(r, maxr) == r <= maxr + 1
LoopGuard(r, maxr) == r <= maxr

\* if retries < max_retries
CanRetryOnceMore(r, maxr) == r <= maxr
CanRetry(r, maxr) == r < maxr

\* wait_time = retry_delay * (2 ** retries)
WaitTimeLinear(delay, r) == delay * (r + 1)
WaitTimeConstant(delay, r) == delay
WaitTime(delay, r) == delay * (2 ^ r)

\* error_info = response.json() if response.text else {"message": "Unknown error"}
ErrorInfo(body) ==
    IF body.text = "empty" THEN ErrorObject("Unknown error") ELSE body.value

\* The exception the try block raises on the outcome o of the network call,
\* or "none".  With a status other than 200, response.json() is called on a
\* non-empty body and raises on text that is not JSON; error_info.get raises
\* AttributeError on JSON that is not an object.  With status 200,
\* response.json() raises on an empty body and on text that is not JSON.
Raised(o) ==
    IF o.kind = "timeout" THEN "Timeout"
    ELSE IF o.kind = "connerr" THEN "ConnectionError"
    ELSE IF o.kind = "exception" THEN "Exception"
    ELSE IF o.status # 200
    THEN IF o.body.text = "empty" THEN "none"
         ELSE IF ~ValidJson(o.body) THEN "JSONDecodeError"
         ELSE IF o.body.value.kind # "object" THEN "Exception"
         ELSE "none"
    ELSE IF ValidJson(o.body) THEN "none" ELSE "JSONDecodeError"

\* the except clauses of the try block: Timeout, ConnectionError,
\* json.JSONDecodeError, and Exception, which catches every other exception
\* raised in the block
CaughtWithoutCatchAll(exc) == exc \in {"Timeout", "ConnectionError", "JSONDecodeError"}
Caught(exc) == exc \in {"Timeout", "ConnectionError", "JSONDecodeError", "Exception"}

\* the outcome o raises an exception no except clause catches: it leaves
\* make_request
Escapes(o) == Raised(o) # "none" /\ ~Caught(Raised(o))

\* the except clauses that log and fall through to the retry logic; the
\* others return None
FallsToRetryWithJson(exc) == exc \in {"Timeout", "ConnectionError", "JSONDecodeError"}
FallsToRetry(exc) == exc \in {"Timeout", "ConnectionError"}

\* response.status_code == 429 or 'rate limit' in str(error_info).lower()
RateLimitedAnyError(status, info) == status >= 400 \/ MentionsRateLimit(info)
RateLimited(status, info) == status = 429 \/ MentionsRateLimit(info)

\* the value returned for a status other than 200 that is not rate limiting
FailureValueErrorInfo(info) == info
FailureValue(info) == None

\* One pass through the body of the while loop with the outcome o of the
\* network call: the sleeps made, the new value of retries, and whether the
\* call returns (with which value) or goes round the loop again.
Step(done, value, slept, r) == [done |-> done, value |-> value, slept |-> slept, r |-> r]

HandleOutcome(o, r, maxr, delay) ==
    IF Raised(o) # "none"
    THEN IF FallsToRetry(Raised(o)) /\ CanRetry(r, maxr)
         THEN Step(FALSE, None, <<WaitTime(delay, r)>>, r + 1)
         ELSE Step(TRUE, None, <<>>, r)
    ELSE IF o.status # 200
    THEN IF RateLimited(o.status, ErrorInfo(o.body))
         THEN Step(~LoopGuard(r + 1, maxr), None, <<WaitTime(delay, r)>>, r + 1)
         ELSE Step(TRUE, FailureValue(ErrorInfo(o.body)), <<>>, r)
    ELSE Step(TRUE, o.body.value, <<>>, r)

\* retries = 0, whatever the counter of an earlier call was
CarriedRetries(r) == r
FreshRetries(r) == 0

\* params['access_token'] = self.access_token
WithTokenIfMissing(d) ==
    IF AccessTokenKey \in DOMAIN d THEN d ELSE DictSet(d, AccessTokenKey, access_token)
WithToken(d) == DictSet(d, AccessTokenKey, access_token)

\* Entry of make_request(ep, d): the access token is written into the
\* dictionary, retries = 0, and the loop is entered if its guard holds.
EnterMakeRequest(ep, d, isCallers) ==
    /\ endpoint' = ep
    /\ params' = WithToken(d)
    /\ aliased' = isCallers
    /\ caller_params' = IF isCallers THEN WithToken(d) ELSE caller_params
    /\ retries' = FreshRetries(retries)
    /\ trace' = <<>>
    /\ result' = None
    /\ mr_pc' = IF LoopGuard(0, max_retries) THEN "loop" ELSE "returned"

\* the caller invokes make_request(endpoint, params, method, max_retries, retry_delay)
CallMakeRequest ==
    /\ client = "constructed"
    /\ op = "make_request"
    /\ mr_pc = "idle"
    /\ EnterMakeRequest(endpoint,
                        IF caller_given THEN caller_params ELSE EmptyDict,
                        caller_given)
    /\ UNCHANGED <<configVars, pgVars>>

\* the method is neither GET nor POST: return None without a request
UnsupportedMethod ==
    /\ mr_pc = "loop"
    /\ ~SupportedMethod(method)
    /\ mr_pc' = "returned"
    /\ result' = None
    /\ UNCHANGED <<configVars, pgVars, dictVars, retries, trace>>

\* One network attempt, its outcome drawn from outcomes, and everything the
\* loop body does with it.  In a call made by get_paginated_results this is
\* an attempt after which make_request goes round its loop again; the
\* attempt on which it returns is part of FetchPage.
AttemptWith(outcomes) ==
    /\ mr_pc = "loop"
    /\ SupportedMethod(method)
    /\ \E o \in outcomes :
         LET h == HandleOutcome(o, retries, max_retries, retry_delay) IN
           /\ op = "make_request" \/ ~h.done
           /\ trace' = trace \o <<AttemptEvent(o)>>
                             \o [i \in 1..Len(h.slept) |-> SleepEvent(h.slept[i])]
           /\ retries' = h.r
           /\ result' = h.value
           /\ mr_pc' = IF Escapes(o) THEN "raised"
                       ELSE IF h.done THEN "returned" ELSE "loop"
    /\ UNCHANGED <<configVars, pgVars, dictVars>>

Attempt ==
    AttemptWith(IF op = "make_request" THEN RequestOutcomes
                ELSE PageOutcomes(all_results, pagelog))

\* an attempt against a server that sends well-formed pages only
AttemptCursor == AttemptWith(CursorOutcomes(all_results, pagelog))

\* ------------------------------------------------------------------------
\* get_paginated_results

\* bool(next_page_url)
UrlTruthy(u) == u.kind = "str" /\ u.s # <<>>

\* key, value = param.split('=') raises ValueError unless there are two parts
ParamRaises(p) == Len(Split(p, "=")) # 2

QueryRaises(q) ==
    LET comps == Split(q, "&") IN \E i \in 1..Len(comps) : ParamRaises(comps[i])

\* for param in ...: key, value = param.split('='); params[key] = value
RECURSIVE ParseInto(_, _)
ParseInto(dict, components) ==
    LET Filled(d, comps) ==
          IF comps = <<>> THEN d
          ELSE LET kv == Split(Head(comps), "=")
               IN  ParseInto(DictSet(d, kv[1], kv[2]), Tail(comps))
    IN  CHOOSE filled \in {Filled(x[1], x[2]) : x \in {<<dict, components>>}} : TRUE

ParseQuery(q) == ParseInto(EmptyDict, Split(q, "&"))

\* Top of the loop: the endpoint and the dictionary of the next request,
\* given next_page_url and the current endpoint and dictionary.
Request(raises, ep, d, al) == [raises |-> raises, endpoint |-> ep, params |-> d, aliased |-> al]

\* endpoint = parts[0]; params = {} (a new dictionary, not the caller's),
\* filled from the query string q
ParsedRequestInPlace(ep, q) == Request(FALSE, ep, ParseQuery(q), TRUE)
ParsedRequest(ep, q) == Request(FALSE, ep, ParseQuery(q), FALSE)

NextPageRequest(u, ep, d, al) ==
    IF ~UrlTruthy(u) THEN Request(FALSE, ep, d, al)
    ELSE LET parts == Split(RemoveAll(u.s, BaseUrl \o <<"/">>), "?") IN
         IF Len(parts) > 1
         THEN IF QueryRaises(parts[2])
              THEN Request(TRUE, parts[1], EmptyDict, FALSE)
              ELSE ParsedRequest(parts[1], parts[2])
         ELSE Request(FALSE, ep, d, al)

\* all_results.extend(response[results_key])
ExtendDistinct(acc, items) ==
    acc \o SelectSeq(items, LAMBDA x : \A k \in 1..Len(acc) : acc[k] # x)
Extend(acc, items) == acc \o items

\* What the loop does with the value make_request returned: stop (break),
\* raise, or go on to the next page; the records appended; the new
\* next_page_url; and how the fetch is recorded in pagelog.
Verdict(v, items, u, logkind) == [verdict |-> v, items |-> items, next |-> u, logkind |-> logkind]

\* if not response ...: break
RefetchOnFailure(j) == Verdict("next", <<>>, NoUrl, IF j = None THEN "none" ELSE "nodata")
StopOnFailure(j) == Verdict("stop", <<>>, NoUrl, IF j = None THEN "none" ELSE "nodata")

\* results_key not in response: break
FollowCursorOnMissingKey(j) ==
    IF j.pkind = "map" /\ j.nkind = "str"
    THEN Verdict("next", <<>>, Url(j.next), "nodata")
    ELSE Verdict("stop", <<>>, NoUrl, "nodata")
StopOnMissingKey(j) == Verdict("stop", <<>>, NoUrl, "nodata")

\* no 'paging' in response, or no 'next' in response['paging']: break
RefetchWithoutCursor(j) == Verdict("next", j.items, NoUrl, "page")
StopWithoutCursor(j) == Verdict("stop", j.items, NoUrl, "page")

ClassifyPage(j) ==
    IF ~Truthy(j)
    THEN StopOnFailure(j)
    ELSE IF j.kind = "number"
    THEN Verdict("raise", <<>>, NoUrl, "bad")
    ELSE IF j.kind = "list" \/ j.dkind = "absent"
    THEN StopOnMissingKey(j)
    ELSE IF j.dkind = "scalar"
    THEN Verdict("raise", <<>>, NoUrl, "bad")
    ELSE IF j.pkind \in {"null", "scalar"}
    THEN Verdict("raise", j.items, NoUrl, "page")
    ELSE IF j.pkind \in {"absent", "list"} \/ j.nkind = "absent"
    THEN StopWithoutCursor(j)
    ELSE Verdict("next", j.items,
                 IF j.nkind = "null" THEN NoUrl ELSE Url(j.next), "page")

\* 'paging' in response and 'next' in response['paging'], for the returned
\* value j: "next" when it holds, "absent" when it does not (no paging, or a
\* paging without 'next'), "bad" when the paging cannot be searched for
\* 'next'
CursorOf(j) ==
    IF j.kind # "object" \/ j.pkind \in {"absent", "list"} THEN "absent"
    ELSE IF j.pkind \in {"null", "scalar"} THEN "bad"
    ELSE IF j.nkind = "absent" THEN "absent"
    ELSE "next"

LogEntry(kind, items, cursor) == [kind |-> kind, items |-> items, cursor |-> cursor]

\* the caller invokes get_paginated_results(endpoint, params, limit): the
\* limit is written into the dictionary and the first page is requested
CallGetPaginatedResults ==
    /\ client = "constructed"
    /\ op = "get_paginated_results"
    /\ pg_pc = "idle"
    /\ LET d == DictSet(IF caller_given THEN caller_params ELSE EmptyDict,
                        LimitKey, limit)
       IN  EnterMakeRequest(endpoint, d, caller_given)
    /\ pg_pc' = "fetching"
    /\ all_results' = <<>>
    /\ next_page_url' = NoUrl
    /\ UNCHANGED <<configVars, pagelog, truncated>>

\* make_request has returned j to get_paginated_results: the rest of the
\* loop body, and, when the loop goes on, the top of the next iteration up
\* to the call of make_request
PageReturned(j) ==
    LET c == ClassifyPage(j)
        acc == Extend(all_results, c.items)
        rq == NextPageRequest(c.next, endpoint, params, aliased)
    IN
      /\ all_results' = acc
      /\ IF Len(pagelog) < MaxPages
         THEN pagelog' = Append(pagelog, LogEntry(c.logkind, c.items, CursorOf(j)))
              /\ truncated' = truncated
         ELSE pagelog' = pagelog /\ truncated' = TRUE
      /\ next_page_url' = c.next
      /\ IF c.verdict = "next" /\ ~rq.raises
         THEN /\ pg_pc' = "fetching"
              /\ EnterMakeRequest(rq.endpoint, rq.params, rq.aliased)
         ELSE /\ pg_pc' = IF c.verdict = "stop" THEN "returned" ELSE "raised"
              /\ mr_pc' = "idle"
              /\ retries' = 0
              /\ trace' = <<>>
              /\ result' = None
              /\ UNCHANGED dictVars

\* an exception left make_request: get_paginated_results has no handler and
\* the exception leaves it too
MakeRequestRaised ==
    /\ pg_pc' = "raised"
    /\ mr_pc' = "raised"
    /\ UNCHANGED <<dictVars, retries, trace, result, all_results,
                   next_page_url, pagelog, truncated>>

\* the network attempt on which the make_request call of a page fetch
\* returns, and what get_paginated_results does with the returned value
FetchPageWith(outcomes) ==
    /\ pg_pc = "fetching"
    /\ mr_pc = "loop"
    /\ SupportedMethod(method)
    /\ \E o \in outcomes :
         LET h == HandleOutcome(o, retries, max_retries, retry_delay) IN
           /\ h.done
           /\ IF Escapes(o) THEN MakeRequestRaised ELSE PageReturned(h.value)
    /\ UNCHANGED configVars

FetchPage == FetchPageWith(PageOutcomes(all_results, pagelog))

\* a page fetch against a server that sends well-formed pages only
FetchPageCursor == FetchPageWith(CursorOutcomes(all_results, pagelog))

\* ------------------------------------------------------------------------
\* utils/date_utils.py: get_monthly_date_ranges

\* a datetime at midnight
Date(y, m, d) == [y |-> y, m |-> m, d |-> d]

IsLeap(y) == y % 4 = 0 /\ (y % 100 # 0 \/ y % 400 = 0)

DaysInMonth(y, m) ==
    IF m = 2 THEN (IF IsLeap(y) THEN 29 ELSE 28)
    ELSE IF m \in {4, 6, 9, 11} THEN 30 ELSE 31

\* a < b, a > b on datetimes
Before(a, b) ==
    \/ a.y < b.y
    \/ a.y = b.y /\ a.m < b.m
    \/ a.y = b.y /\ a.m = b.m /\ a.d < b.d

\* date + timedelta(days=1), date - timedelta(days=1)
NextDay(a) ==
    IF a.d < DaysInMonth(a.y, a.m) THEN Date(a.y, a.m, a.d + 1)
    ELSE IF a.m < 12 THEN Date(a.y, a.m + 1, 1)
    ELSE Date(a.y + 1, 1, 1)

PrevDay(a) ==
    IF a.d > 1 THEN Date(a.y, a.m, a.d - 1)
    ELSE IF a.m > 1 THEN Date(a.y, a.m - 1, DaysInMonth(a.y, a.m - 1))
    ELSE Date(a.y - 1, 12, 31)

RECURSIVE AddDays(_, _)
AddDays(a, n) == IF n = 0 THEN a ELSE AddDays(NextDay(a), n - 1)

\* datetime(year + 1, 1, 1) if month == 12 else datetime(year, month + 1, 1)
FirstOfNextMonth(a) ==
    IF a.m = 12 THEN Date(a.y + 1, 1, 1) ELSE Date(a.y, a.m + 1, 1)

\* format_date: the fields of strftime("%Y-%m-%d")
FormatDate(a) == <<a.y, a.m, a.d>>

\* while current_start < end_date
MonthLoopGuard(cs, e) == Before(cs, e)

\* the end of the chunk that starts at cs: the last day of its month, or
\* end_date if that comes first
ChunkEnd(cs, e) ==
    LET monthEnd == PrevDay(FirstOfNextMonth(cs))
    IN  IF Before(e, monthEnd) THEN e ELSE monthEnd

\* start dates around the ends of months and of a year, in a leap year
\* and in others
StartDates ==
    { Date(2023, 11, 30), Date(2023, 12, 1), Date(2023, 12, 15),
      Date(2024, 1, 31), Date(2024, 2, 1), Date(2024, 2, 29),
      Date(2025, 2, 14) }

DatesIdle ==
    /\ dr_pc = "idle"
    /\ start_date = Date(2023, 12, 1)
    /\ end_date = Date(2023, 12, 1)
    /\ current_start = Date(2023, 12, 1)
    /\ monthly_ranges = <<>>

\* get_monthly_date_ranges(start_date, end_date) is called
CallGetMonthlyDateRanges ==
    /\ dr_pc = "idle"
    /\ dr_pc' = "loop"
    /\ current_start' = start_date
    /\ monthly_ranges' = <<>>
    /\ UNCHANGED <<start_date, end_date>>

\* one iteration of the loop
MonthStep ==
    /\ dr_pc = "loop"
    /\ MonthLoopGuard(current_start, end_date)
    /\ LET current_end == ChunkEnd(current_start, end_date) IN
         /\ monthly_ranges' = Append(monthly_ranges,
                                     <<FormatDate(current_start), FormatDate(current_end)>>)
         /\ current_start' = FirstOfNextMonth(current_end)
    /\ UNCHANGED <<dr_pc, start_date, end_date>>

\* the loop ends: return monthly_ranges
MonthReturn ==
    /\ dr_pc = "loop"
    /\ ~MonthLoopGuard(current_start, end_date)
    /\ dr_pc' = "returned"
    /\ UNCHANGED <<start_date, end_date, current_start, monthly_ranges>>

\* ------------------------------------------------------------------------
\* models/models_insights.py: ConsolidatedMetrics

MetricNames == {"views", "reach", "likes", "follows"}

\* {'views': 0, 'reach': 0, 'likes': 0, 'follows': 0}
ZeroMetrics == [m \in MetricNames |-> 0]

\* arguments of add_account_data
AccountTypes == {"Facebook Page", "Instagram Account", "Ad Account"}
AccountIds == {"a", "b"}
MetricChoices ==
    { [views |-> 1, reach |-> 2, likes |-> 3, follows |-> 4],
      [views |-> 5, reach |-> 0, likes |-> 1, follows |-> 0] }

\* account_data
AccountData(id, type, v) ==
    [id |-> id, name |-> id, type |-> type, views |-> v.views,
     reach |-> v.reach, likes |-> v.likes, follows |-> v.follows]

\* 'facebook' if account_type == 'Facebook Page' else 'instagram'
PlatformByName(type) == IF type = "Instagram Account" THEN "instagram" ELSE "facebook"
Platform(type) == IF type = "Facebook Page" THEN "facebook" ELSE "instagram"

\* metrics[m] += value, for the four metrics
AddMetrics(metrics, v) == [m \in MetricNames |-> metrics[m] + v[m]]

\* ConsolidatedMetrics()
MetricsIdle ==
    /\ cm_facebook = ZeroMetrics
    /\ cm_instagram = ZeroMetrics
    /\ cm_accounts = <<>>
    /\ cm_calls = <<>>

\* add_account_data(id, name, type, views, reach, likes, follows)
AddAccountData ==
    /\ Len(cm_calls) < MaxCalls
    /\ \E id \in AccountIds, type \in AccountTypes, v \in MetricChoices :
         /\ IF Platform(type) = "facebook"
            THEN /\ cm_facebook' = AddMetrics(cm_facebook, v)
                 /\ cm_instagram' = cm_instagram
            ELSE /\ cm_instagram' = AddMetrics(cm_instagram, v)
                 /\ cm_facebook' = cm_facebook
         /\ cm_accounts' = Append(cm_accounts, AccountData(id, type, v))
         /\ cm_calls' = Append(cm_calls, AccountData(id, type, v))

\* ------------------------------------------------------------------------
\* models/models_account.py: AccountCollection

\* the account classes and their base classes
AccountClasses ==
    {"SocialMediaAccount", "FacebookPage", "InstagramAccount", "AdAccount"}
Bases(cls) ==
    IF cls = "SocialMediaAccount" THEN {cls} ELSE {cls, "SocialMediaAccount"}
IsInstance(account, cls) == cls \in Bases(account.class)

CollectionIds == {"1", "2"}
Account(cls, id) == [class |-> cls, id |-> id]
Accounts == {Account(cls, id) : cls \in AccountClasses, id \in CollectionIds}

\* the None that find_by_id returns
NoAccount == [class |-> "NoneType", id |-> ""]

\* AccountCollection()
CollectionIdle ==
    /\ facebook_pages = <<>>
    /\ instagram_accounts = <<>>
    /\ ad_accounts = <<>>
    /\ ac_pc = "idle"
    /\ ac_calls = <<>>
    /\ account_id = ""
    /\ found = NoAccount

\* add_account(account)
AddAccount ==
    /\ Len(ac_calls) < MaxAdds
    /\ \E account \in Accounts :
         /\ IF IsInstance(account, "FacebookPage")
            THEN /\ facebook_pages' = Append(facebook_pages, account)
                 /\ UNCHANGED <<instagram_accounts, ad_accounts>>
                 /\ ac_pc' = "added"
            ELSE IF IsInstance(account, "InstagramAccount")
            THEN /\ instagram_accounts' = Append(instagram_accounts, account)
                 /\ UNCHANGED <<facebook_pages, ad_accounts>>
                 /\ ac_pc' = "added"
            ELSE IF IsInstance(account, "AdAccount")
            THEN /\ ad_accounts' = Append(ad_accounts, account)
                 /\ UNCHANGED <<facebook_pages, instagram_accounts>>
                 /\ ac_pc' = "added"
            ELSE /\ UNCHANGED <<facebook_pages, instagram_accounts,
                                ad_accounts>>
                 /\ ac_pc' = "raised"
         /\ ac_calls' = Append(ac_calls, [account |-> account, pc |-> ac_pc'])
    /\ account_id' = ""
    /\ found' = NoAccount

\* get_all_accounts()
GetAllAccountsAdsFirst == ad_accounts \o facebook_pages \o instagram_accounts
GetAllAccounts == facebook_pages \o instagram_accounts \o ad_accounts

\* the loop of find_by_id over a list of accounts
RECURSIVE FirstWithId(_, _)
FirstWithId(accounts, id) ==
    IF accounts = <<>> THEN NoAccount
    ELSE IF Head(accounts).id = id THEN Head(accounts)
    ELSE FirstWithId(Tail(accounts), id)

\* find_by_id(account_id)
FindById ==
    /\ \E id \in CollectionIds :
         /\ account_id' = id
         /\ found' = FirstWithId(GetAllAccounts, id)
    /\ ac_pc' = "found"
    /\ UNCHANGED <<facebook_pages, instagram_accounts, ad_accounts, ac_calls>>

\* ------------------------------------------------------------------------
\* services/analytics_service.py: AnalyticsService.get_connected_accounts

\* the value of .get('id'): a text, or None when the entry has no id
NoneId == "<None>"
PageIds == {"1", NoneId}

\* f"{fb_page.id}"
Text(id) == IF id = NoneId THEN "None" ELSE id

\* user_response['data']
PageLists ==
    UNION { [1..n -> PageIds] : n \in 0..MaxData }

\* the ids of the entries of insta_response['data'] and
\* ad_accounts_response['data']
LinkedLists == { <<>>, <<"1">>, <<"2", "1">> }

\* what make_request returns: None, {}, a dictionary without 'data', one
\* with 'data': null, one with a list under 'data'
ReturnValue(kind, data) == [kind |-> kind, data |-> data]
ReturnValues(lists) ==
    { ReturnValue(k, <<>>) : k \in {"none", "empty", "nodata",
                                    "nulldata"} }
        \cup { ReturnValue("data", l) : l \in lists }

\* response and 'data' in response
HasDataAlways(response) == TRUE
HasData(response) == response.kind \in {"nulldata", "data"}

\* for entry in response.get('data', []): a TypeError when it is None
LoopRaises(response) == response.kind = "nulldata"

\* accounts.add_account(account) for each account of news, in order
AddAccounts(news) ==
    /\ facebook_pages' = facebook_pages
          \o SelectSeq(news, LAMBDA a : IsInstance(a, "FacebookPage"))
    /\ instagram_accounts' = instagram_accounts
          \o SelectSeq(news, LAMBDA a : IsInstance(a, "InstagramAccount"))
    /\ ad_accounts' = ad_accounts
          \o SelectSeq(news, LAMBDA a : IsInstance(a, "AdAccount"))
    /\ ac_calls' = ac_calls
          \o [i \in 1..Len(news) |-> [account |-> news[i], pc |-> "added"]]
    /\ ac_pc' = IF news = <<>> THEN ac_pc ELSE "added"
    /\ UNCHANGED <<account_id, found>>

\* the accounts built from the entries of a response
AccountsOf(cls, response) ==
    [i \in 1..Len(response.data) |-> Account(cls, response.data[i])]

\* self.api.make_request(endpoint)
Requested(endpoint_text, response) ==
    sv_requests' = Append(sv_requests, [endpoint |-> endpoint_text,
                                        response |-> response])

ServiceIdle ==
    /\ sv_pc = "idle"
    /\ sv_requests = <<>>
    /\ sv_pages = <<>>

\* get_connected_accounts() up to the loop over the pages
CallGetConnectedAccounts ==
    /\ sv_pc = "idle"
    /\ \E user_response \in ReturnValues(PageLists) :
         /\ Requested("me/accounts", user_response)
         /\ sv_pc' = IF ~HasData(user_response) THEN "returned"
                      ELSE IF LoopRaises(user_response) THEN "raised"
                      ELSE "loop"
         /\ sv_pages' = IF HasData(user_response)
                         THEN user_response.data ELSE <<>>
    /\ AddAccounts(<<>>)

\* one iteration of the loop over the pages
ProcessPage ==
    /\ sv_pc = "loop"
    /\ sv_pages # <<>>
    /\ \E insta_response \in ReturnValues(LinkedLists) :
         LET fb_page == Account("FacebookPage", Head(sv_pages))
         IN  /\ Requested(Text(fb_page.id) \o "/instagram_accounts",
                           insta_response)
             /\ IF HasData(insta_response)
                THEN IF LoopRaises(insta_response)
                     THEN /\ AddAccounts(<<fb_page>>)
                          /\ sv_pc' = "raised"
                     ELSE /\ AddAccounts(<<fb_page>> \o
                               AccountsOf("InstagramAccount", insta_response))
                          /\ sv_pc' = "loop"
                ELSE /\ AddAccounts(<<fb_page>>)
                     /\ sv_pc' = "loop"
    /\ sv_pages' = Tail(sv_pages)

\* get_connected_accounts() after the loop over the pages
RequestAdAccounts ==
    /\ sv_pc = "loop"
    /\ sv_pages = <<>>
    /\ \E ad_accounts_response \in ReturnValues(LinkedLists) :
         /\ Requested("me/adaccounts", ad_accounts_response)
         /\ IF HasData(ad_accounts_response)
            THEN IF LoopRaises(ad_accounts_response)
                 THEN /\ AddAccounts(<<>>)
                      /\ sv_pc' = "raised"
                 ELSE /\ AddAccounts(AccountsOf("AdAccount",
                                                ad_accounts_response))
                      /\ sv_pc' = "returned"
            ELSE /\ AddAccounts(<<>>)
                 /\ sv_pc' = "returned"
    /\ UNCHANGED sv_pages

\* ------------------------------------------------------------------------
\* Specifications

InitCommon ==
    /\ limit \in LimitChoices
    /\ endpoint \in Endpoints
    /\ caller_given \in BOOLEAN
    /\ caller_params = IF caller_given THEN CallerDict ELSE EmptyDict
    /\ params = EmptyDict
    /\ aliased = FALSE
    /\ mr_pc = "idle"
    /\ retries = 0
    /\ trace = <<>>
    /\ result = None
    /\ pg_pc = "idle"
    /\ all_results = <<>>
    /\ next_page_url = NoUrl
    /\ pagelog = <<>>
    /\ truncated = FALSE

\* the other modules are not in use
OthersIdle == DatesIdle /\ MetricsIdle /\ CollectionIdle /\ ServiceIdle

\* the API client is constructed and not in use
ApiIdle ==
    /\ Constructed
    /\ op = "none"
    /\ method = "GET"
    /\ max_retries = MAX_RETRIES
    /\ retry_delay = RETRY_DELAY
    /\ caller_given = FALSE
    /\ InitCommon

apiVars == <<op, method, max_retries, retry_delay, limit, caller_given,
             clientVars, mrVars, pgVars, dictVars>>

\* a call of get_paginated_results; its page fetches use the GET method
Init ==
    /\ Constructed
    /\ OthersIdle
    /\ op = "get_paginated_results"
    /\ method = "GET"
    /\ max_retries = MAX_RETRIES
    /\ retry_delay = RETRY_DELAY
    /\ InitCommon

Next == CallGetPaginatedResults \/ Attempt \/ FetchPage

Spec == Init /\ [][Next]_vars

\* a direct call of make_request
InitRequest ==
    /\ Constructed
    /\ OthersIdle
    /\ op = "make_request"
    /\ method \in Methods
    /\ max_retries \in RetryChoices
    /\ retry_delay \in DelayChoices
    /\ InitCommon

NextRequest == CallMakeRequest \/ UnsupportedMethod \/ Attempt

SpecRequest == InitRequest /\ [][NextRequest]_vars

\* the construction of a client with any argument and any configured token,
\* followed by a direct call of make_request
InitClient ==
    /\ OthersIdle
    /\ client = "none"
    /\ token_arg \in TokenChoices
    /\ token_env \in TokenChoices
    /\ access_token = <<>>
    /\ op = "make_request"
    /\ method = "GET"
    /\ max_retries = MAX_RETRIES
    /\ retry_delay = RETRY_DELAY
    /\ InitCommon

NextClient == Construct \/ CallMakeRequest \/ Attempt

SpecClient == InitClient /\ [][NextClient]_vars

\* a call of get_monthly_date_ranges with start_date <= end_date
InitDates ==
    /\ ApiIdle
    /\ MetricsIdle
    /\ CollectionIdle
    /\ ServiceIdle
    /\ dr_pc = "idle"
    /\ start_date \in StartDates
    /\ end_date \in {AddDays(start_date, n) : n \in 0..MaxSpan}
    /\ current_start = start_date
    /\ monthly_ranges = <<>>

NextDates ==
    \/ CallGetMonthlyDateRanges /\ UNCHANGED <<apiVars, metricsVars, collectionVars, serviceVars>>
    \/ MonthStep /\ UNCHANGED <<apiVars, metricsVars, collectionVars, serviceVars>>
    \/ MonthReturn /\ UNCHANGED <<apiVars, metricsVars, collectionVars, serviceVars>>

SpecDates == InitDates /\ [][NextDates]_vars

\* a sequence of add_account_data calls on a new ConsolidatedMetrics
InitMetrics ==
    /\ ApiIdle
    /\ DatesIdle
    /\ MetricsIdle
    /\ CollectionIdle
    /\ ServiceIdle

NextMetrics == AddAccountData /\ UNCHANGED <<apiVars, dateVars, collectionVars, serviceVars>>

SpecMetrics == InitMetrics /\ [][NextMetrics]_vars

\* a sequence of add_account and find_by_id calls on a new AccountCollection
InitAccounts ==
    /\ ApiIdle
    /\ DatesIdle
    /\ MetricsIdle
    /\ CollectionIdle
    /\ ServiceIdle

NextAccounts ==
    \/ AddAccount /\ UNCHANGED <<apiVars, dateVars, metricsVars, serviceVars>>
    \/ FindById /\ UNCHANGED <<apiVars, dateVars, metricsVars, serviceVars>>

SpecAccounts == InitAccounts /\ [][NextAccounts]_vars

\* a call of get_connected_accounts; each make_request call returns any of
\* the values make_request can return
InitService ==
    /\ ApiIdle
    /\ DatesIdle
    /\ MetricsIdle
    /\ CollectionIdle
    /\ ServiceIdle

NextService ==
    \/ CallGetConnectedAccounts /\ UNCHANGED <<apiVars, dateVars, metricsVars>>
    \/ ProcessPage /\ UNCHANGED <<apiVars, dateVars, metricsVars>>
    \/ RequestAdAccounts /\ UNCHANGED <<apiVars, dateVars, metricsVars>>

SpecService == InitService /\ [][NextService]_vars

\* a call of get_paginated_results against a server that sends well-formed
\* pages only; every step that can be taken is eventually taken (the
\* program is sequential and each network call returns)
NextCursor == CallGetPaginatedResults \/ AttemptCursor \/ FetchPageCursor

FairSpec == Init /\ [][NextCursor]_vars /\ WF_vars(NextCursor)

TypeOK ==
    /\ mr_pc \in {"idle", "loop", "returned", "raised"}
    /\ pg_pc \in {"idle", "fetching", "returned", "raised"}
    /\ retries \in 0..(MaxRetriesBound + 1)
    /\ Len(all_results) <= MaxResults
    /\ Len(pagelog) <= MaxPages

\* ------------------------------------------------------------------------
\* Observations on the trace of the current make_request call

IsAttempt(e) == e.ev = "attempt"
IsSleep(e) == e.ev = "sleep"

\* outcomes of the network attempts, in order
Attempts == LET a == SelectSeq(trace, IsAttempt) IN [i \in 1..Len(a) |-> a[i].out]

\* lengths of the sleeps, in order
Sleeps == LET z == SelectSeq(trace, IsSleep) IN [i \in 1..Len(z) |-> z[i].wait]

\* number of network attempts among the first i events
AttemptsUpTo(i) == Len(SelectSeq(SubSeq(trace, 1, i), IsAttempt))

BodyMentionsRateLimit(b) == ValidJson(b) /\ MentionsRateLimit(b.value)
RateLimitResponse(o) ==
    IsResponse(o) /\ o.status # 200 /\ (o.status = 429 \/ BodyMentionsRateLimit(o.body))

\* ------------------------------------------------------------------------
\* Properties of make_request (SpecRequest)

\* C3 as stated: a call with max_retries = N (N >= 0) makes at most N network
\* attempts.
C3_AtMostMaxRetriesAttempts == max_retries >= 0 => Len(Attempts) <= max_retries

\* C3, amended: a call with max_retries = N >= 0 makes at most N + 1 network
\* attempts (the first attempt and at most N retries), whatever the
\* sequence of timeouts, connection errors and rate-limit responses; with
\* N < 0 it makes none.
C3_AtMostMaxRetriesPlusOneAttempts ==
    Len(Attempts) <= (IF max_retries >= 0 THEN max_retries + 1 ELSE 0)

\* a call that used all its attempts on a timeout, a connection error and a
\* rate-limit response
C3_Witness ==
    /\ mr_pc = "returned"
    /\ max_retries = 2
    /\ Len(Attempts) = 3
    /\ Attempts[1] = Timeout
    /\ Attempts[2] = ConnectionError
    /\ RateLimitResponse(Attempts[3])

\* C4: every response with status 429 received while retries remain is
\* followed by a backoff sleep and a further attempt, whatever its body; a
\* 429 does not end the call before the retry budget is used up.
C4_RateLimitAlwaysRetried ==
    \A i \in 1..Len(trace) :
        ( /\ IsAttempt(trace[i])
          /\ IsResponse(trace[i].out)
          /\ trace[i].out.status = 429
          /\ AttemptsUpTo(i) <= max_retries )
        => /\ i < Len(trace)
           /\ IsSleep(trace[i + 1])
           /\ (mr_pc = "loop" \/ i + 1 < Len(trace))

\* C5: when the first two attempts receive a rate-limit response and the
\* third receives status 200 with valid JSON, the call returns the third
\* body decoded, after exactly three attempts and exactly two sleeps of
\* retry_delay and 2 * retry_delay seconds, in that order.
C5_TwoRateLimitsThenSuccess ==
    ( /\ Len(Attempts) >= 3
      /\ RateLimitResponse(Attempts[1])
      /\ RateLimitResponse(Attempts[2])
      /\ Success(Attempts[3]) )
    => /\ mr_pc = "returned"
       /\ result = Attempts[3].body.value
       /\ Len(Attempts) = 3
       /\ Sleeps = <<retry_delay, 2 * retry_delay>>
       /\ trace[Len(trace)].ev = "attempt"

C5_Witness ==
    /\ mr_pc = "returned"
    /\ retry_delay = 5
    /\ Len(Attempts) = 3
    /\ Attempts[1] = Response(429, EmptyBody)
    /\ Attempts[2] = Response(400, JsonBody(ErrorObject("rate limit")))
    /\ Attempts[3] = Response(200, JsonBody(SamplePage))
    /\ result = SamplePage

\* a response whose body is not valid JSON, at event i of the trace
InvalidJsonAt(i) ==
    /\ IsAttempt(trace[i])
    /\ IsResponse(trace[i].out)
    /\ ~ValidJson(trace[i].out.body)

ReturnsNoneAt(i) == i = Len(trace) /\ mr_pc = "returned" /\ result = None

\* C8 as stated: a response whose body is not valid JSON makes the call
\* return None at once, with no sleep and no further attempt, at whichever
\* attempt it is received.
C8_InvalidJsonNotRetried ==
    \A i \in 1..Len(trace) : InvalidJsonAt(i) => ReturnsNoneAt(i)

\* C8, amended: a response whose body is not valid JSON makes the call
\* return None at once, with no sleep and no further attempt, at whichever
\* attempt it is received, unless the body is empty and the status is 429
\* (that response is retried as a rate limit).
C8_InvalidJsonNotRetriedUnlessEmpty429 ==
    \A i \in 1..Len(trace) :
        (InvalidJsonAt(i) /\ trace[i].out # Response(429, EmptyBody))
        => ReturnsNoneAt(i)

\* a call ended by a body that is not JSON, received at the second attempt
C8_Witness ==
    /\ mr_pc = "returned"
    /\ Len(Attempts) = 2
    /\ Attempts[1] = Timeout
    /\ Attempts[2] = Response(200, GarbageBody)
    /\ Len(Sleeps) = 1

\* C9: when the first attempt receives a status that is neither 200 nor 429
\* with a body that does not mention 'rate limit', the call returns None
\* after exactly one attempt, without any sleep or retry.
C9_OtherStatusFailsAtOnce ==
    ( /\ Len(Attempts) >= 1
      /\ IsResponse(Attempts[1])
      /\ Attempts[1].status \notin {200, 429}
      /\ ~BodyMentionsRateLimit(Attempts[1].body) )
    => /\ mr_pc = "returned"
       /\ result = None
       /\ Len(trace) = 1
       /\ retries = 0

C9_Witness ==
    /\ mr_pc = "returned"
    /\ max_retries = 2
    /\ trace = <<AttemptEvent(Response(400, JsonBody(ErrorObject("bad request"))))>>

\* C10: the call returns a value other than None only if its last attempt
\* received status 200 with valid JSON, and then the value is that body
\* decoded; no attempt or sleep follows such a response; every other
\* outcome returns None.
C10_ValueOnlyFromSuccess ==
    /\ \A i \in 1..Len(trace) :
           (IsAttempt(trace[i]) /\ Success(trace[i].out))
           => /\ i = Len(trace)
              /\ mr_pc = "returned"
              /\ result = trace[i].out.body.value
    /\ (trace = <<>> \/ ~Success(trace[Len(trace)].out) \/ IsSleep(trace[Len(trace)]))
       => result = None

\* a call that returned a page after one retry
C10_Witness ==
    /\ mr_pc = "returned"
    /\ result = SamplePage
    /\ Len(Attempts) = 2
    /\ Attempts[2] = Response(200, JsonBody(SamplePage))

\* ------------------------------------------------------------------------
\* Properties of get_paginated_results (Spec, FairSpec)

\* number of records delivered by the first n recorded page fetches
RECURSIVE Offset(_)
Offset(n) == IF n = 0 THEN 0 ELSE Offset(n - 1) + Len(pagelog[n].items)

AllPages == \A i \in 1..Len(pagelog) : pagelog[i].kind = "page"

\* C1: when a call returns after a chain of k >= 1 successful pages, its
\* result is the concatenation of the pages' record lists: its length is the
\* sum of the page lengths, the j-th record of page i is at position
\* (records of pages 1..i-1) + j, so pages keep their order, records keep
\* their order within a page, and repeated records are kept.
C1_ConcatenationOfPages ==
    (pg_pc = "returned" /\ ~truncated /\ pagelog # <<>> /\ AllPages)
    => /\ Len(all_results) = Offset(Len(pagelog))
       /\ \A i \in 1..Len(pagelog) :
            \A j \in 1..Len(pagelog[i].items) :
               all_results[Offset(i - 1) + j] = pagelog[i].items[j]

\* three pages, a record of the first page coming again in the second
C1_Witness ==
    /\ pg_pc = "returned"
    /\ ~truncated
    /\ Len(pagelog) = 3
    /\ AllPages
    /\ pagelog[1].items = <<"r2", "r1">>
    /\ pagelog[2].items = <<"r2">>
    /\ pagelog[3].items = <<>>
    /\ all_results = <<"r2", "r1", "r2">>

\* C2: when the fetch of page k fails (make_request returns None), the call
\* stops: no further request is issued, and it returns the records of pages
\* 1..k-1 in order (nothing when k = 1).
C2_FailedFetchStops ==
    \A k \in 1..Len(pagelog) :
        pagelog[k].kind = "none"
        => /\ k = Len(pagelog)
           /\ pg_pc = "returned"
           /\ mr_pc = "idle"
           /\ \A i \in 1..(k - 1) : pagelog[i].kind = "page"
           /\ Len(all_results) = Offset(k - 1)
           /\ \A i \in 1..(k - 1) :
                \A j \in 1..Len(pagelog[i].items) :
                   all_results[Offset(i - 1) + j] = pagelog[i].items[j]

\* the third fetch failed after two pages
C2_Witness ==
    /\ pg_pc = "returned"
    /\ Len(pagelog) = 3
    /\ pagelog[3].kind = "none"
    /\ pagelog[1].items = <<"r1">>
    /\ pagelog[2].items = <<"r2", "r1">>
    /\ all_results = <<"r1", "r2", "r1">>

\* C6: no exception reaches the caller of get_paginated_results, whatever
\* the pages contain.
C6_NeverRaises == pg_pc # "raised"

\* C7: every call of get_paginated_results eventually returns, also when
\* every page carries a next cursor.
C7_EveryCallReturns == <>(pg_pc = "returned")

\* the path and the query string of next_page_url: the text left of the
\* first '?' once the base URL is stripped, and the key=value pairs right
\* of it (none when there is no '?')
UrlParts == Split(RemoveAll(next_page_url.s, BaseUrl \o <<"/">>), "?")
UrlEndpoint == UrlParts[1]
UrlParams == IF Len(UrlParts) > 1 THEN ParseQuery(UrlParts[2]) ELSE EmptyDict

\* C11: the request of every page after the first has the endpoint and the
\* parameters parsed from the previous page's paging.next URL, plus the
\* access token; nothing of the previous request is reused, also when the
\* URL has no query string.
C11_RequestFromNextUrl ==
    (pg_pc = "fetching" /\ pagelog # <<>> /\ UrlTruthy(next_page_url))
    => /\ endpoint = UrlEndpoint
       /\ params = DictSet(UrlParams, AccessTokenKey, Token)

\* C12: every network attempt, the first one and every retry, of a direct
\* call and of every page fetch, is sent with access_token equal to the
\* client's own token, whatever access_token the caller's dictionary or the
\* paging.next URL contained.  (An attempt is made from a state with
\* mr_pc = "loop" and sends the params of that state.)
C12_OwnTokenOnEveryRequest ==
    mr_pc = "loop"
    => /\ AccessTokenKey \in DOMAIN params
       /\ params[AccessTokenKey] = Token

\* a retry of the fetch of a second page whose URL carried a forged
\* access_token, in a call whose caller also passed a forged access_token
C12_Witness ==
    /\ pg_pc = "fetching"
    /\ mr_pc = "loop"
    /\ retries = 1
    /\ caller_given
    /\ next_page_url = Url(<<"B", "/", "f", "?", "T", "=", "x", "&", "k", "=", "v", "&", "k", "=", "w", "?", "j", "=", "z">>)
    /\ endpoint = <<"f">>
    /\ params[AccessTokenKey] = Token

\* ------------------------------------------------------------------------
\* Further properties of make_request (SpecRequest)

\* C13: every backoff sleep is followed by another network attempt of the
\* same call; no sleep comes after the last attempt, whether the retry is
\* due to a timeout, a connection error or a rate-limit response.
C13_SleepOnlyBetweenAttempts ==
    \A i \in 1..Len(trace) :
        IsSleep(trace[i])
        => IF i < Len(trace) THEN IsAttempt(trace[i + 1]) ELSE mr_pc = "loop"

\* C14: the i-th sleep of a call (i counted from 0) lasts retry_delay * 2^i,
\* whatever mix of timeouts, connection errors and rate-limit responses
\* caused the sleeps; each sleep is twice the one before and no length
\* comes twice.
C14_SleepsDouble ==
    /\ \A i \in 1..Len(Sleeps) : Sleeps[i] = retry_delay * (2 ^ (i - 1))
    /\ \A i \in 1..(Len(Sleeps) - 1) : Sleeps[i + 1] = 2 * Sleeps[i]
    /\ \A i, j \in 1..Len(Sleeps) : i # j => Sleeps[i] # Sleeps[j]

\* a rate limit, a timeout and a rate limit again: three sleeps
C14_Witness ==
    /\ retry_delay = 5
    /\ Len(Attempts) = 3
    /\ Attempts[1] = Response(429, EmptyBody)
    /\ Attempts[2] = Timeout
    /\ Attempts[3] = Response(400, JsonBody(ErrorObject("rate limit")))
    /\ Sleeps = <<5, 10, 20>>

RECURSIVE SumSeq(_)
SumSeq(q) == IF q = <<>> THEN 0 ELSE Head(q) + SumSeq(Tail(q))

TransportFailure(o) == o \in {Timeout, ConnectionError}

\* C15: a call all of whose attempts end in a timeout or a connection error
\* makes max_retries + 1 attempts, sleeps max_retries times,
\* retry_delay * (2^max_retries - 1) seconds in all, and returns None; it
\* does not return before.
C15_ExhaustedRetries ==
    (Len(Attempts) >= 1 /\ \A i \in 1..Len(Attempts) : TransportFailure(Attempts[i]))
    => /\ Len(Attempts) <= max_retries + 1
       /\ mr_pc = "returned" <=> Len(Attempts) = max_retries + 1
       /\ mr_pc = "returned"
          => /\ Len(Sleeps) = max_retries
             /\ SumSeq(Sleeps) = retry_delay * ((2 ^ max_retries) - 1)
             /\ result = None
             /\ IsAttempt(trace[Len(trace)])

C15_Witness ==
    /\ mr_pc = "returned"
    /\ max_retries = 2
    /\ retry_delay = 5
    /\ Attempts = <<Timeout, ConnectionError, Timeout>>
    /\ Sleeps = <<5, 10>>
    /\ result = None

\* C16: no outcome of a network attempt makes an exception leave
\* make_request: a timeout, a connection error, any other exception of the
\* transport, any status and any body end in a returned value.
C16_MakeRequestNeverRaises == mr_pc # "raised"

\* a call that returned None on a 400 whose body is a JSON list
C16_Witness ==
    /\ mr_pc = "returned"
    /\ result = None
    /\ trace = <<AttemptEvent(Response(400, JsonBody(JsonList)))>>

\* GET or POST in any letter case
IsGetOrPost(m) == m \in {"GET", "get", "Get", "POST", "post", "Post"}

\* C19: a call with a method other than GET or POST (in any letter case)
\* sends no network request and performs no sleep, for every max_retries.
C19_UnsupportedMethodSendsNothing ==
    ~IsGetOrPost(method) => trace = <<>>

\* a PUT call with two retries allowed has returned
C19_Witness ==
    /\ method = "PUT"
    /\ max_retries = 2
    /\ mr_pc = "returned"
    /\ trace = <<>>

\* C20: a call with an unsupported method ends in an exception, not in the
\* result None.
C20_UnsupportedMethodRaises ==
    (~IsGetOrPost(method) /\ mr_pc \in {"returned", "raised"})
    => mr_pc = "raised"

\* ------------------------------------------------------------------------
\* Further properties of get_paginated_results (Spec)

\* C17: when a fetched page does not contain results_key, the call stops at
\* once: nothing of the page is appended, its paging.next cursor, if any, is
\* not followed (no further request), and the records of the earlier pages
\* are returned.
C17_MissingKeyStops ==
    \A k \in 1..Len(pagelog) :
        pagelog[k].kind = "nodata"
        => /\ k = Len(pagelog)
           /\ ~truncated
           /\ pg_pc = "returned"
           /\ mr_pc = "idle"
           /\ pagelog[k].items = <<>>
           /\ \A i \in 1..(k - 1) : pagelog[i].kind = "page"
           /\ Len(all_results) = Offset(k - 1)
           /\ \A i \in 1..(k - 1) :
                \A j \in 1..Len(pagelog[i].items) :
                   all_results[Offset(i - 1) + j] = pagelog[i].items[j]

\* the second page had no results_key but a next cursor
C17_Witness ==
    /\ pg_pc = "returned"
    /\ Len(pagelog) = 2
    /\ pagelog[1] = LogEntry("page", <<"r1", "r2">>, "next")
    /\ pagelog[2] = LogEntry("nodata", <<>>, "next")
    /\ all_results = <<"r1", "r2">>

\* C18: when the first page has results_key and no paging.next cursor, the
\* call performs exactly one page fetch and returns exactly that page's
\* records, each once, in the original order.
C18_SinglePage ==
    ( /\ pagelog # <<>>
      /\ pagelog[1].kind = "page"
      /\ pagelog[1].cursor = "absent" )
    => /\ Len(pagelog) = 1
       /\ ~truncated
       /\ pg_pc = "returned"
       /\ mr_pc = "idle"
       /\ all_results = pagelog[1].items

\* a single page with the same record twice
C18_Witness ==
    /\ pg_pc = "returned"
    /\ pagelog = <<LogEntry("page", <<"r2", "r2">>, "absent")>>
    /\ all_results = <<"r2", "r2">>

\* C22: when the page fetched last has a paging whose 'next' is present but
\* null or an empty string, the call has appended the page's records and
\* returned; it does not issue the previous request again.
C22_EmptyCursorStops ==
    ( /\ pagelog # <<>>
      /\ ~truncated
      /\ pagelog[Len(pagelog)].kind = "page"
      /\ pagelog[Len(pagelog)].cursor = "next"
      /\ ~UrlTruthy(next_page_url) )
    => /\ pg_pc = "returned"
       /\ mr_pc = "idle"

\* C23: a sleep lies between two consecutive page fetches: when the request
\* of a page after the first is about to be sent for the first time, a
\* sleep has been performed since the previous page was returned.  (trace
\* holds every attempt and sleep since then.)
C23_SleepBetweenPages ==
    (pg_pc = "fetching" /\ mr_pc = "loop" /\ pagelog # <<>> /\ Attempts = <<>>)
    => Sleeps # <<>>

\* C24: every page fetch starts with a fresh retry counter.  While a page
\* is being fetched, retries counts the failed attempts of this fetch only,
\* it never exceeds max_retries, so the fetch makes at most max_retries + 1
\* attempts (the failed ones and the one on which it returns) and a call of
\* k pages at most k * (max_retries + 1); and the sleeps of the fetch are
\* retry_delay, 2 * retry_delay, ..., whatever happened on earlier pages.
C24_FreshRetryCounter ==
    (pg_pc = "fetching" /\ mr_pc = "loop")
    => /\ retries = Len(Attempts)
       /\ retries = Len(Sleeps)
       /\ retries <= max_retries
       /\ \A i \in 1..Len(Sleeps) : Sleeps[i] = retry_delay * (2 ^ (i - 1))

\* the third page is being fetched and its first attempt has timed out
C24_Witness ==
    /\ pg_pc = "fetching"
    /\ mr_pc = "loop"
    /\ Len(pagelog) = 2
    /\ AllPages
    /\ retries = 1
    /\ Attempts = <<Timeout>>
    /\ Sleeps = <<retry_delay>>

\* the call has begun
CallStarted == IF op = "make_request" THEN mr_pc # "idle" ELSE pg_pc # "idle"

\* the caller's dictionary with the keys the call writes: access_token, and
\* for get_paginated_results also limit
CallerDictWritten ==
    IF op = "make_request"
    THEN DictSet(CallerDict, AccessTokenKey, access_token)
    ELSE DictSet(DictSet(CallerDict, LimitKey, limit), AccessTokenKey, access_token)

\* the caller's dictionary changes by the writes of 'limit' and
\* 'access_token' only, and the dictionary in use, when it is the caller's,
\* has the caller's content
CallerParamsFrame ==
    /\ caller_given
       => caller_params = IF CallStarted THEN CallerDictWritten ELSE CallerDict
    /\ (caller_given /\ CallStarted) => caller_params[<<"k">>] = CallerDict[<<"k">>]
    /\ ~caller_given => caller_params = EmptyDict
    /\ aliased => (caller_given /\ params = caller_params)

C21_TokenRequired ==
    /\ client = "raised"
       <=> (client # "none" /\ ~StringTruthy(token_arg) /\ ~StringTruthy(token_env))
    /\ client = "constructed" => access_token # <<>>
    /\ client # "constructed" => (mr_pc = "idle" /\ trace = <<>>)
    /\ mr_pc = "loop"
       => (AccessTokenKey \in DOMAIN params /\ params[AccessTokenKey] # <<>>)

\* no argument and an empty configured token: the constructor raised
C21_Witness ==
    /\ client = "raised"
    /\ token_arg = NoString
    /\ token_env = String(<<>>)

\* ------------------------------------------------------------------------
\* Properties of get_monthly_date_ranges (SpecDates)

\* C26: for start_date <= end_date the returned chunks partition the
\* inclusive range: there is a first chunk and it starts at start_date,
\* each later chunk starts on the day after the previous one ends, the last
\* chunk ends at end_date, and every chunk lies within one calendar month;
\* also when start_date = end_date and when end_date is the first day of a
\* month.
C26_ChunksPartitionRange ==
    dr_pc = "returned"
    => /\ monthly_ranges # <<>>
       /\ monthly_ranges[1][1] = FormatDate(start_date)
       /\ monthly_ranges[Len(monthly_ranges)][2] = FormatDate(end_date)
       /\ \A i \in 1..Len(monthly_ranges) :
            LET a == monthly_ranges[i][1]
                b == monthly_ranges[i][2]
            IN  /\ a[1] = b[1]
                /\ a[2] = b[2]
                /\ a[3] <= b[3]
       /\ \A i \in 1..(Len(monthly_ranges) - 1) :
            LET b == monthly_ranges[i][2]
            IN  monthly_ranges[i + 1][1] = FormatDate(NextDay(Date(b[1], b[2], b[3])))

\* ------------------------------------------------------------------------
\* Properties of ConsolidatedMetrics (SpecMetrics)

\* sum of metric m over the entries that are of type 'Facebook Page'
\* (pages = TRUE) or of any other type (pages = FALSE)
RECURSIVE SumMetric(_, _, _)
SumMetric(entries, m, pages) ==
    IF entries = <<>> THEN 0
    ELSE (IF (Head(entries).type = "Facebook Page") = pages
          THEN Head(entries)[m] ELSE 0)
         + SumMetric(Tail(entries), m, pages)

\* C27: after every sequence of add_account_data calls, for each metric m,
\* facebook[m] is the sum of m over the entries of type 'Facebook Page',
\* instagram[m] the sum of m over all the other entries, and accounts holds
\* one entry per call, in call order.
C27_TotalsMatchAccounts ==
    /\ \A m \in MetricNames :
         /\ cm_facebook[m] = SumMetric(cm_accounts, m, TRUE)
         /\ cm_instagram[m] = SumMetric(cm_accounts, m, FALSE)
    /\ cm_accounts = cm_calls

\* a page, an ad account and an Instagram account were added
C27_Witness ==
    /\ Len(cm_accounts) = 3
    /\ cm_accounts[1].type = "Facebook Page"
    /\ cm_accounts[2].type = "Ad Account"
    /\ cm_accounts[3].type = "Instagram Account"
    /\ cm_accounts[1].views = 1
    /\ cm_accounts[2].views = 5
    /\ cm_accounts[3].views = 5
    /\ cm_facebook["views"] = 1
    /\ cm_instagram["views"] = 10

\* ------------------------------------------------------------------------
\* C28: after every sequence of add_account calls each of the three lists
\* holds, in insertion order, exactly the accounts of its class that were
\* passed, so every account added is in the one list matching its class; a
\* call with an account of any other class raised ValueError and added
\* nothing; find_by_id returned the first account with that id among the
\* pages, else among the Instagram accounts, else among the ad accounts, or
\* None when no list holds one.

OfClass(cls) ==
    LET hits == SelectSeq(ac_calls, LAMBDA c : c.account.class = cls)
    IN  [i \in 1..Len(hits) |-> hits[i].account]

ListClasses == {"FacebookPage", "InstagramAccount", "AdAccount"}

FirstIn(list, id) ==
    LET at == {i \in 1..Len(list) : list[i].id = id}
    IN  list[CHOOSE i \in at : \A j \in at : i <= j]

HasId(list, id) == \E i \in 1..Len(list) : list[i].id = id

C28_AccountCollection ==
    /\ facebook_pages = OfClass("FacebookPage")
    /\ instagram_accounts = OfClass("InstagramAccount")
    /\ ad_accounts = OfClass("AdAccount")
    /\ \A i \in 1..Len(ac_calls) :
         ac_calls[i].pc =
            IF ac_calls[i].account.class \in ListClasses
            THEN "added" ELSE "raised"
    /\ ac_pc = "found" =>
         found = IF HasId(facebook_pages, account_id)
                 THEN FirstIn(facebook_pages, account_id)
                 ELSE IF HasId(instagram_accounts, account_id)
                 THEN FirstIn(instagram_accounts, account_id)
                 ELSE IF HasId(ad_accounts, account_id)
                 THEN FirstIn(ad_accounts, account_id)
                 ELSE NoAccount

\* a SocialMediaAccount was refused, an ad account and then an Instagram
\* account with the same id were added, and find_by_id returned the
\* Instagram account
C28_Witness ==
    /\ ac_pc = "found"
    /\ account_id = "1"
    /\ Len(ac_calls) = 3
    /\ ac_calls[1] = [account |-> Account("SocialMediaAccount", "1"),
                      pc |-> "raised"]
    /\ ac_calls[2].account = Account("AdAccount", "1")
    /\ ac_calls[3].account = Account("InstagramAccount", "1")
    /\ facebook_pages = <<>>
    /\ found = Account("InstagramAccount", "1")

\* ------------------------------------------------------------------------
\* C29: in get_connected_accounts the first request is 'me/accounts'; when
\* it fails (None) or its response has no 'data' key, the method returns
\* with the three lists empty and no other request is issued, so
\* 'me/adaccounts' is never requested.  When it succeeds, the requests
\* after it are '<page id>/instagram_accounts' for the pages in order and
\* only then 'me/adaccounts'; at every moment facebook_pages holds the pages
\* processed so far and instagram_accounts the accounts of every
\* '<page id>/instagram_accounts' response that carried a list, whatever
\* the other responses were: a failed request removes nothing.

RECURSIVE LinkedSoFar(_)
LinkedSoFar(reqs) ==
    IF reqs = <<>> THEN <<>>
    ELSE LET r == Head(reqs).response
         IN  (IF r.kind = "data"
              THEN [i \in 1..Len(r.data) |->
                       [class |-> "InstagramAccount", id |-> r.data[i]]]
              ELSE <<>>) \o LinkedSoFar(Tail(reqs))

C29_ConnectedAccounts ==
    LET n == Len(sv_requests) IN
    /\ n = 0 => sv_pc = "idle"
    /\ n > 0 =>
        LET first == sv_requests[1].response
            pages == first.data
            done == IF n - 1 < Len(pages) THEN n - 1 ELSE Len(pages)
        IN  /\ sv_requests[1].endpoint = "me/accounts"
            /\ first.kind \in {"none", "empty", "nodata"} =>
                 /\ n = 1
                 /\ sv_pc = "returned"
                 /\ facebook_pages = <<>>
                 /\ instagram_accounts = <<>>
                 /\ ad_accounts = <<>>
            /\ first.kind \in {"nulldata", "data"} =>
                 /\ \A i \in 2..n :
                      IF i <= Len(pages) + 1
                      THEN sv_requests[i].endpoint =
                             (IF pages[i - 1] = NoneId THEN "None"
                              ELSE pages[i - 1]) \o "/instagram_accounts"
                      ELSE /\ i = Len(pages) + 2
                           /\ sv_requests[i].endpoint = "me/adaccounts"
                 /\ sv_pc = "returned" => n = Len(pages) + 2
                 /\ facebook_pages =
                      [i \in 1..done |->
                          [class |-> "FacebookPage", id |-> pages[i]]]
                 /\ instagram_accounts =
                      LinkedSoFar(SubSeq(sv_requests, 2, done + 1))
                 /\ ad_accounts =
                      IF n = Len(pages) + 2
                         /\ sv_requests[n].response.kind = "data"
                      THEN [i \in 1..Len(sv_requests[n].response.data) |->
                              [class |-> "AdAccount",
                               id |-> sv_requests[n].response.data[i]]]
                      ELSE <<>>

\* two pages came back; the Instagram request of the first delivered two
\* accounts, that of the second failed, and the ad accounts request was
\* issued last: the method returned with all the accounts added
C29_Witness ==
    /\ sv_pc = "returned"
    /\ Len(sv_requests) = 4
    /\ sv_requests[1].response = ReturnValue("data", <<"1", NoneId>>)
    /\ sv_requests[2] = [endpoint |-> "1/instagram_accounts",
                         response |-> ReturnValue("data", <<"2", "1">>)]
    /\ sv_requests[3] = [endpoint |-> "None/instagram_accounts",
                         response |-> ReturnValue("none", <<>>)]
    /\ sv_requests[4] = [endpoint |-> "me/adaccounts",
                         response |-> ReturnValue("data", <<"1">>)]
    /\ Len(facebook_pages) = 2
    /\ Len(instagram_accounts) = 2
    /\ Len(ad_accounts) = 1

====
